---- MODULE Spec2Model ----
(***************************************************************************)
(* Session liveness and authenticated transport of the dental front end.   *)
(*                                                                         *)
(* Part I  : useInactivityDetection (src/@fuse/hooks/                      *)
(*           useInactivityDetection.ts), a React hook.  One time unit of   *)
(*           the model is one second (the period of the countdown          *)
(*           interval).  A state setter queues its update; React applies   *)
(*           the queue, calling queued updater functions in order, during  *)
(*           the next render.  The callbacks bound to the DOM and to the   *)
(*           modal are the closures of the last render.                    *)
(* Part II : authFetch (src/utils/authFetch.ts) and the fetch interceptor  *)
(*           of JwtAuthProvider.                                           *)
(* Part III: handleSubmit of NewCaseDialog, which resubmits a case whose   *)
(*           identifier collided.                                          *)
(***************************************************************************)
EXTENDS Integers, Sequences, FiniteSets, Bags, TLC

\* ---------------------------------------------------------------- bounds
IdleTimeout == 2            \* options.timeout, in seconds
InitialCountdownTime == 2   \* options.countdownTime, in seconds
MaxLogoutCalls == 2         \* cap on the counted invocations of onLogout
MaxSends == 2               \* authFetch calls made in one behaviour
MaxTokens == 3              \* credentials the backend issues in one behaviour
MaxLayers == 2              \* cap on the stacked fetch interceptors
MaxIds == 3                 \* distinct values of the random part of a case id
MaxRuns == 2                \* handleSubmit calls that can be running at one time

None == 0                   \* a ref holding null
MaxClock == IdleTimeout + 1  \* the mount clock saturates here

VARIABLES
    mounted,              \* the component using the hook is mounted
    enabled,              \* options.enabled as of the last render
    isInactive,           \* useState isInactive, as of the last render
    showModal,            \* useState showModal, as of the last render (what the
                          \* modal shows and what the bound closures captured)
    countdownTime,        \* useState countdownTime, as of the last render
    qIsInactive,          \* isInactive after the queued setIsInactive calls
    qShowModal,           \* showModal after the queued setShowModal calls
    qCountdown,           \* queued setCountdownTime calls: "set" (the initial
                          \* value) or "tick" (the updater), in call order
    dirty,                \* a state setter was called since the last render
    inactivityTimerRef,   \* inactivityTimerRef.current (timer id or None)
    countdownTimerRef,    \* countdownTimerRef.current (timer id or None)
    timeouts,             \* pending window.setTimeout timers: [id, left]
    intervals,            \* pending window.setInterval timers: [id, left]
    logoutCalls,          \* number of invocations of onLogout
    idleFor,              \* seconds since mount or the last activity notification,
                          \* confirm or forceLogout (at most IdleTimeout)
    gapsShort,            \* every such gap so far was shorter than IdleTimeout
    clock,                \* seconds since mount (at most MaxClock)
    last,                 \* the last operation that ran
    events,               \* options.events, the configured activity signals
    signal,               \* the last DOM event dispatched on the window
    ticks,                \* interval callbacks run since the idle timer fired
    logoutOutcome         \* what the last invocation of onLogout did

VARIABLES
    authStatus,           \* authState.authStatus of JwtAuthProvider
    authHeader,           \* authHeaders.Authorization of authFetch.ts (or Null)
    slot,                 \* localStorage item 'jwt_access_token' (or Null)
    bootToken,            \* tokenStorageValue captured by the auto-login effect
    fetchLayers,          \* interceptor wrappers installed on window.fetch
    reqs,                 \* the authFetch calls awaiting their response or its body
    calls,                \* authFetch calls made so far
    netCalls,             \* invocations of the underlying network fetch
    nextTok,              \* number of the next credential the backend issues
    voided,               \* a 401 response was processed since the last sign-in
    retired,              \* credentials replaced by a rotation
    ev                    \* the last pipeline event

VARIABLES
    dlgOpen,              \* the open prop of NewCaseDialog
    caseId,               \* formData.caseId, the current state (Empty: '')
    formFilled,           \* the other required fields and currentUser are set
    loading,              \* useState loading
    error,                \* useState error
    runs,                 \* the handleSubmit calls that have not returned: a bag of
                          \*   [phase, attempts, closureCaseId, sentIds, generated]
    resp                  \* the last create / fetchJson that settled, and its call

retryVars == <<dlgOpen, caseId, formFilled, loading, error, runs, resp>>

pipeVars == <<authStatus, authHeader, slot, bootToken, fetchLayers, reqs, calls,
              netCalls, nextTok, voided, retired, ev>>

timerVars == <<mounted, enabled, isInactive, showModal, countdownTime, qIsInactive,
               qShowModal, qCountdown, dirty, inactivityTimerRef, countdownTimerRef,
               timeouts, intervals, logoutCalls, idleFor, gapsShort, clock, last,
               events, signal, ticks, logoutOutcome>>

\* ------------------------------------------------- timers of the browser
\* The refs and the browser's timer table, as one value.
Timers == [iref |-> inactivityTimerRef, cref |-> countdownTimerRef,
           timeouts |-> timeouts, intervals |-> intervals]

UsedIds(T) == {t.id : t \in T.timeouts} \cup {t.id : t \in T.intervals}
                \cup ({T.iref, T.cref} \ {None})

\* window.setTimeout / window.setInterval return an id no live timer or ref holds.
NewId(T) == CHOOSE i \in 1..(Cardinality(UsedIds(T)) + 1) :
                /\ i \notin UsedIds(T)
                /\ \A j \in 1..(i - 1) : j \in UsedIds(T)

clearTimers_keepCountdown(T) ==
    [T EXCEPT !.timeouts = {t \in T.timeouts : t.id # T.iref},
              !.iref = None]

\* clearTimers: clear both handles when set, and null the refs.
clearTimers(T) ==
    [T EXCEPT !.timeouts = IF T.iref # None THEN {t \in T.timeouts : t.id # T.iref}
                           ELSE T.timeouts,
              !.iref = None,
              !.intervals = IF T.cref # None THEN {t \in T.intervals : t.id # T.cref}
                            ELSE T.intervals,
              !.cref = None]

startCountdownTimer_noRef(T) ==
    [T EXCEPT !.intervals = T.intervals \cup {[id |-> NewId(T), left |-> 1]}]

\* startCountdownTimer, the timer part: countdownTimerRef.current = setInterval(.., 1000)
startCountdownTimer(T) ==
    LET id == NewId(T)
    IN [T EXCEPT !.intervals = T.intervals \cup {[id |-> id, left |-> 1]},
                 !.cref = id]

startInactivityTimer_ignoreEnabled(T, en) ==
    LET C == clearTimers(T)
        id == NewId(C)
    IN [C EXCEPT !.timeouts = C.timeouts \cup {[id |-> id, left |-> IdleTimeout]},
                 !.iref = id]

\* startInactivityTimer: if (!enabled) return; clearTimers(); setTimeout(.., timeout)
startInactivityTimer(T, en) ==
    IF ~en THEN T
    ELSE LET C == clearTimers(T)
             id == NewId(C)
         IN [C EXCEPT !.timeouts = C.timeouts \cup {[id |-> id, left |-> IdleTimeout]},
                      !.iref = id]

SetTimers(T) ==
    /\ inactivityTimerRef' = T.iref
    /\ countdownTimerRef' = T.cref
    /\ timeouts' = T.timeouts
    /\ intervals' = T.intervals

\* ------------------------------------------------ the countdown updater
UpdaterFires_late(prevTime) == prevTime <= 0

\* The updater given to setCountdownTime by the interval callback:
\* prevTime <= 1 forces the logout and yields 0, otherwise prevTime - 1.
UpdaterFires(prevTime) == prevTime <= 1

UpdaterNext_skip(prevTime) == IF UpdaterFires(prevTime) THEN 0 ELSE prevTime - 2

UpdaterNext(prevTime) == IF UpdaterFires(prevTime) THEN 0 ELSE prevTime - 1

\* React processes the queued setCountdownTime calls in order during the
\* render, starting from the rendered value c; the result is the new value
\* and how many updaters took the logout branch.
RECURSIVE RunQueue(_, _)
RunQueue(q, c) ==
    IF q = <<>> THEN [value |-> c, fired |-> 0]
    ELSE IF Head(q) = "set" THEN RunQueue(Tail(q), InitialCountdownTime)
    ELSE LET r == RunQueue(Tail(q), UpdaterNext(c))
         IN [value |-> r.value,
             fired |-> r.fired + (IF UpdaterFires(c) THEN 1 ELSE 0)]

Min(a, b) == IF a < b THEN a ELSE b

\* ------------------------------------------- the sign-out callback
handleLogout_noCatch(custom, fails) ==
    [failed |-> fails, logged |-> FALSE,
     navigate |-> IF fails \/ custom THEN "none" ELSE "/sign-out"]

\* handleLogout of InactivityProvider, the onLogout given to the hook: an
\* async function whose body is one try/catch.  customOnLogout() when the
\* prop is given, else await signOut() and navigate(logoutRedirectPath); a
\* throw or a rejection is logged and followed by navigate('/sign-in').
\* Nothing is thrown to the caller.
handleLogout(custom, fails) ==
    [failed |-> fails, logged |-> fails,
     navigate |-> IF fails THEN "/sign-in" ELSE IF custom THEN "none" ELSE "/sign-out"]

NoLogout == [failed |-> FALSE, logged |-> FALSE, navigate |-> "none"]

\* ------------------------------------------------- the activity signals
DEFAULT_EVENTS == {"mousedown", "mousemove", "keypress", "scroll", "touchstart", "click"}

\* The events the hook passes to useEventListener, whatever options.events is.
RegisteredEvents == {"mousedown", "mousemove", "keypress", "scroll", "touchstart", "click"}

\* The DOM events that occur, and the configurations of options.events.
Signals == {"mousemove", "keypress", "keydown"}
EventConfigs == {DEFAULT_EVENTS, {"keydown"}}

\* ------------------------------------------------------------------ Init
\* The state after the first render and its mount effect
\* (if (enabled) startInactivityTimer()).
TimerInit ==
    /\ mounted = TRUE
    /\ enabled \in BOOLEAN
    /\ isInactive = FALSE
    /\ showModal = FALSE
    /\ countdownTime = InitialCountdownTime
    /\ qIsInactive = FALSE
    /\ qShowModal = FALSE
    /\ qCountdown = <<>>
    /\ dirty = FALSE
    /\ inactivityTimerRef = (IF enabled THEN 1 ELSE None)
    /\ countdownTimerRef = None
    /\ timeouts = (IF enabled THEN {[id |-> 1, left |-> IdleTimeout]} ELSE {})
    /\ intervals = {}
    /\ logoutCalls = 0
    /\ idleFor = 0
    /\ gapsShort = TRUE
    /\ clock = 0
    /\ last = "mount"
    /\ events \in EventConfigs
    /\ signal = "none"
    /\ ticks = 0
    /\ logoutOutcome = NoLogout

\* ----------------------------------------------------------- operations
\* State that the timer operations leave alone unless they say otherwise.
QueueUnchanged == UNCHANGED <<qIsInactive, qShowModal, qCountdown, dirty>>
RenderedUnchanged == UNCHANGED <<isInactive, showModal, countdownTime>>
TimersUnchanged == UNCHANGED <<inactivityTimerRef, countdownTimerRef, timeouts, intervals>>

resetTimer_accumulate ==
    IF ~enabled
    THEN QueueUnchanged /\ TimersUnchanged
    ELSE /\ qIsInactive' = FALSE
         /\ qShowModal' = FALSE
         /\ dirty' = TRUE
         /\ UNCHANGED qCountdown
         /\ TimersUnchanged

\* resetTimer: if (!enabled) return; setIsInactive(false); setShowModal(false);
\* startInactivityTimer()
resetTimer ==
    IF ~enabled
    THEN QueueUnchanged /\ TimersUnchanged
    ELSE /\ qIsInactive' = FALSE
         /\ qShowModal' = FALSE
         /\ dirty' = TRUE
         /\ UNCHANGED qCountdown
         /\ SetTimers(startInactivityTimer(Timers, enabled))

handleActivity_noGuard ==
    /\ mounted
    /\ resetTimer
    /\ idleFor' = 0
    /\ last' = "handleActivity"
    /\ UNCHANGED <<pipeVars, retryVars>>
    /\ UNCHANGED <<events, ticks, logoutOutcome>>
    /\ RenderedUnchanged
    /\ UNCHANGED <<mounted, enabled, logoutCalls, gapsShort, clock>>

\* handleActivity, the listener of every activity signal: the closure of the
\* last render, so the showModal it tests is the rendered one.
handleActivity ==
    /\ mounted
    /\ IF showModal
       THEN QueueUnchanged /\ TimersUnchanged
       ELSE resetTimer
    /\ idleFor' = 0
    /\ last' = "handleActivity"
    /\ UNCHANGED <<pipeVars, retryVars>>
    /\ UNCHANGED <<events, ticks, logoutOutcome>>
    /\ RenderedUnchanged
    /\ UNCHANGED <<mounted, enabled, logoutCalls, gapsShort, clock>>

\* A DOM event occurs on the window.  useEventListener calls the handler of
\* the last render once for an event it was registered for; an event nothing
\* was registered for reaches no handler.
DispatchEvent ==
    \E sig \in Signals :
        /\ signal' = sig
        /\ IF sig \in RegisteredEvents
           THEN handleActivity
           ELSE /\ mounted
                /\ last' = "unheard"
                /\ QueueUnchanged /\ TimersUnchanged /\ RenderedUnchanged
                /\ UNCHANGED <<mounted, enabled, logoutCalls, idleFor, gapsShort, clock,
                               events, ticks, logoutOutcome>>
                /\ UNCHANGED <<pipeVars, retryVars>>

\* The callback of the idle timer: setIsInactive(true); setShowModal(true);
\* startCountdownTimer() (setCountdownTime(initial) and the interval).
IdleTimerFire ==
    \E t \in timeouts :
        /\ t.left = 0
        /\ qIsInactive' = TRUE
        /\ qShowModal' = TRUE
        /\ qCountdown' = Append(qCountdown, "set")
        /\ dirty' = TRUE
        /\ SetTimers(startCountdownTimer([Timers EXCEPT !.timeouts = @ \ {t}]))
        /\ last' = "idleFire"
        /\ UNCHANGED <<pipeVars, retryVars>>
        /\ ticks' = 0
        /\ UNCHANGED <<events, signal, logoutOutcome>>
        /\ RenderedUnchanged
        /\ UNCHANGED <<mounted, enabled, logoutCalls, idleFor, gapsShort, clock>>

\* The callback of the countdown interval: setCountdownTime(updater).  The
\* interval stays armed for the next second.
CountdownTick ==
    \E t \in intervals :
        /\ t.left = 0
        /\ intervals' = (intervals \ {t}) \cup {[t EXCEPT !.left = 1]}
        /\ qCountdown' = Append(qCountdown, "tick")
        /\ dirty' = TRUE
        /\ last' = "tick"
        /\ UNCHANGED <<pipeVars, retryVars>>
        /\ ticks' = ticks + 1
        /\ UNCHANGED <<events, signal, logoutOutcome>>
        /\ RenderedUnchanged
        /\ UNCHANGED <<mounted, enabled, qIsInactive, qShowModal, inactivityTimerRef,
                       countdownTimerRef, timeouts, logoutCalls, idleFor, gapsShort, clock>>

\* A render of the mounted component: React applies the queued updates.  An
\* updater that finds prevTime <= 1 runs clearTimers(), setShowModal(false),
\* setIsInactive(true) and onLogout() from inside the render.
Render ==
    /\ mounted
    /\ dirty
    /\ LET r == RunQueue(qCountdown, countdownTime)
       IN /\ logoutCalls + r.fired <= MaxLogoutCalls
          /\ countdownTime' = r.value
          /\ showModal' = (IF r.fired > 0 THEN FALSE ELSE qShowModal)
          /\ isInactive' = (IF r.fired > 0 THEN TRUE ELSE qIsInactive)
          /\ logoutCalls' = logoutCalls + r.fired
          /\ IF r.fired > 0 THEN SetTimers(clearTimers(Timers)) ELSE TimersUnchanged
          /\ \E custom \in BOOLEAN, fails \in BOOLEAN :
                logoutOutcome' = IF r.fired > 0 THEN handleLogout(custom, fails)
                                 ELSE logoutOutcome
    /\ qShowModal' = showModal'
    /\ qIsInactive' = isInactive'
    /\ qCountdown' = <<>>
    /\ dirty' = FALSE
    /\ last' = "render"
    /\ UNCHANGED <<pipeVars, retryVars>>
    /\ UNCHANGED <<events, signal, ticks>>
    /\ UNCHANGED <<mounted, enabled, idleFor, gapsShort, clock>>

\* confirmPresence: clearTimers(); setShowModal(false); setIsInactive(false);
\* startInactivityTimer()
confirmPresence ==
    /\ mounted
    /\ SetTimers(startInactivityTimer(clearTimers(Timers), enabled))
    /\ qShowModal' = FALSE
    /\ qIsInactive' = FALSE
    /\ dirty' = TRUE
    /\ idleFor' = 0
    /\ last' = "confirm"
    /\ UNCHANGED <<pipeVars, retryVars>>
    /\ UNCHANGED <<events, signal, ticks, logoutOutcome>>
    /\ RenderedUnchanged
    /\ UNCHANGED <<mounted, enabled, qCountdown, logoutCalls, gapsShort, clock>>

\* forceLogout: clearTimers(); setShowModal(false); setIsInactive(true); onLogout()
forceLogout ==
    /\ mounted
    /\ logoutCalls < MaxLogoutCalls
    /\ SetTimers(clearTimers(Timers))
    /\ qShowModal' = FALSE
    /\ qIsInactive' = TRUE
    /\ dirty' = TRUE
    /\ logoutCalls' = logoutCalls + 1
    /\ \E custom \in BOOLEAN, fails \in BOOLEAN :
          logoutOutcome' = handleLogout(custom, fails)
    /\ idleFor' = 0
    /\ last' = "forceLogout"
    /\ UNCHANGED <<pipeVars, retryVars>>
    /\ UNCHANGED <<events, signal, ticks>>
    /\ RenderedUnchanged
    /\ UNCHANGED <<mounted, enabled, qCountdown, gapsShort, clock>>

\* The cleanups of the two effects at unmount, each calling clearTimers().
\* The queued updates of an unmounted component are never rendered.
Dispose ==
    /\ SetTimers(clearTimers(clearTimers(Timers)))
    /\ mounted' = FALSE
    /\ last' = "dispose"
    /\ UNCHANGED <<pipeVars, retryVars>>
    /\ UNCHANGED <<events, signal, ticks, logoutOutcome>>
    /\ RenderedUnchanged
    /\ QueueUnchanged
    /\ UNCHANGED <<enabled, logoutCalls, idleFor, gapsShort, clock>>

\* One second passes.  A due timer runs before the clock moves on, and so
\* does the render a mounted component has scheduled.
Tick ==
    /\ mounted => ~dirty
    /\ \A t \in timeouts \cup intervals : t.left > 0
    /\ timeouts' = {[t EXCEPT !.left = @ - 1] : t \in timeouts}
    /\ intervals' = {[t EXCEPT !.left = @ - 1] : t \in intervals}
    /\ idleFor' = Min(idleFor + 1, IdleTimeout)
    /\ gapsShort' = (gapsShort /\ idleFor' < IdleTimeout)
    /\ clock' = Min(clock + 1, MaxClock)
    /\ last' = "second"
    /\ UNCHANGED <<pipeVars, retryVars>>
    /\ UNCHANGED <<events, signal, ticks, logoutOutcome>>
    /\ RenderedUnchanged
    /\ QueueUnchanged
    /\ UNCHANGED <<mounted, enabled, inactivityTimerRef, countdownTimerRef, logoutCalls>>

\* The props of the hook change and the component renders again: enabled
\* takes the value e, or onLogout, timeout or countdownTime change and with
\* them the identity of startInactivityTimer.  The mount effect runs again:
\* its cleanup, clearTimers(), then if (enabled) startInactivityTimer().  No
\* state setter is called.  (Queued updates are applied by the same render;
\* that part is the step Render, taken first.)
PropsChange ==
    /\ mounted
    /\ ~dirty
    /\ \E e \in BOOLEAN :
        /\ enabled' = e
        /\ SetTimers(IF e THEN startInactivityTimer(clearTimers(Timers), e)
                     ELSE clearTimers(Timers))
    /\ last' = "effect"
    /\ UNCHANGED <<pipeVars, retryVars>>
    /\ RenderedUnchanged
    /\ QueueUnchanged
    /\ UNCHANGED <<mounted, logoutCalls, idleFor, gapsShort, clock, events, signal,
                   ticks, logoutOutcome>>

TimerNext ==
    \/ DispatchEvent
    \/ IdleTimerFire
    \/ CountdownTick
    \/ Render
    \/ confirmPresence
    \/ forceLogout
    \/ Dispose
    \/ Tick

\* ===================================================== Part II: pipeline
\* A string is a sequence of chunks; "Bearer " is one chunk and a credential
\* issued by the backend is a sequence of other chunks.  Null stands for
\* null / undefined / an absent key.
Null == <<"null">>
BearerPrefix == "Bearer "
Tok(n) == <<ToString(n)>>
Truthy(str) == str # Null /\ str # <<>>

\* setAuthToken: authHeaders.Authorization = `Bearer ${token}`
setAuthToken(token) == <<BearerPrefix>> \o token

\* String.prototype.replace('Bearer ', ''): removes the first occurrence.
RECURSIVE ReplaceBearer(_)
ReplaceBearer(str) ==
    IF str = <<>> THEN <<>>
    ELSE IF Head(str) = BearerPrefix THEN Tail(str)
    ELSE <<Head(str)>> \o ReplaceBearer(Tail(str))

\* getAuthToken: the header's token when there is one, else the localStorage item.
getAuthToken(h, sl) ==
    LET headerToken == IF h = Null THEN Null ELSE ReplaceBearer(h)
    IN IF Truthy(headerToken) THEN headerToken ELSE sl

isAuthenticated_always(h, sl) == TRUE

\* isAuthenticated: !!getAuthToken()
isAuthenticated(h, sl) == Truthy(getAuthToken(h, sl))

RequestAuthorization_headerOnly(h, sl) == h

\* The Authorization header authFetch puts on the request:
\* { ...authHeaders, ...authHeadersToUse }
RequestAuthorization(h, sl) ==
    LET currentToken == getAuthToken(h, sl)
    IN IF Truthy(currentToken) THEN <<BearerPrefix>> \o currentToken ELSE h

\* 'Content-Type': 'application/json' is added when method !== 'GET'.
HasJsonContentType(method) == method # "GET"

\* The headers option of a caller that passes its own Authorization and
\* Content-Type.
CallerAuthorization == <<"Basic ", "caller">>

\* config.headers: the JSON content type for a method other than GET, then
\* authHeaders and the current token unless skipGlobalHeaders, then the
\* caller's headers, a later entry replacing an earlier one of the same name.
RequestHeaders(method, skipGlobalHeaders, own, h, sl) ==
    [authorization |-> IF own THEN CallerAuthorization
                       ELSE IF skipGlobalHeaders THEN Null
                       ELSE RequestAuthorization(h, sl),
     contentType |-> (~own /\ HasJsonContentType(method))]

\* AuthFetchError(status, data): what a caller catching it can read.
AuthFetchError(status, data) ==
    [status |-> status, data |-> data, isAuthError |-> status \in {401, 403}]

\* The error member of the JSON body of a non-ok response.
Bodies == {"Authentication required", "duplicate key error", "Forbidden"}

Methods == {"GET", "POST"}
Statuses == {200, 400, 401, 403}
Ok(status) == status \in 200..299

\* The credential store and the auth status, as one value.
Store == [h |-> authHeader, sl |-> slot, st |-> authStatus]

\* signOut of JwtAuthProvider: removeTokenStorageValue(); removeAuthToken();
\* setAuthState(unauthenticated)
signOut(S) == [h |-> Null, sl |-> Null, st |-> "unauthenticated"]

\* One wrapper installed by interceptFetch, run on a response: rotate the
\* credential when New-Access-Token is present, then sign out on 401.
interceptLayer(S, status, rot) ==
    LET S1 == IF Truthy(rot) THEN [S EXCEPT !.h = setAuthToken(rot), !.sl = rot] ELSE S
    IN IF status = 401 THEN signOut(S1) ELSE S1

\* The response passes through the wrappers that were installed when the
\* request was made, innermost first.
RECURSIVE interceptAll(_, _, _, _)
interceptAll(k, S, status, rot) ==
    IF k = 0 THEN S ELSE interceptAll(k - 1, interceptLayer(S, status, rot), status, rot)

authFetchOn401_anyError(S, status) ==
    IF ~Ok(status) THEN [S EXCEPT !.h = Null, !.sl = Null] ELSE S

\* authFetch after the await: on 401, removeAuthToken() and
\* localStorage.removeItem('jwt_access_token').
authFetchOn401(S, status) ==
    IF status = 401 THEN [S EXCEPT !.h = Null, !.sl = Null] ELSE S

\* The last pipeline event, with the request it belongs to and what was
\* handed to the caller (kind "none": nothing yet).
Event(op) ==
    [op |-> op, requireAuth |-> FALSE, method |-> "GET", sent |-> FALSE,
     skip |-> FALSE, own |-> FALSE,
     authorization |-> Null, contentType |-> FALSE, layers |-> 0,
     status |-> 0, rot |-> Null, kind |-> "none", data |-> "none"]

\* An event of the call in progress r.  Once the request is on the wire only
\* the wrappers it goes through and the response decide what happens.
EventOf(op, r) ==
    [Event(op) EXCEPT !.sent = TRUE, !.layers = r.layers, !.status = r.status]

\* The calls in progress form a bag: they are told apart by content only.
One(r) == SetToBag({r})

SetStore(S) ==
    /\ authHeader' = S.h
    /\ slot' = S.sl
    /\ authStatus' = S.st

\* The page loads: the module state is fresh, localStorage may hold the
\* credential of an earlier page life, and the auto-login effect has started.
PipeInit ==
    /\ authStatus = "configuring"
    /\ authHeader = Null
    /\ slot \in {Null, Tok(1)}
    /\ bootToken = slot
    /\ fetchLayers = 0
    /\ reqs = EmptyBag
    /\ calls = 0
    /\ netCalls = 0
    /\ nextTok = 2
    /\ voided = FALSE
    /\ retired = {}
    /\ ev = Event("init")

\* The auto-login effect resolves.  Success needs a stored token that
\* isTokenValid and the backend accept.
AutoLoginResolve ==
    /\ authStatus = "configuring"
    /\ \E ok \in BOOLEAN :
        /\ ok => Truthy(bootToken)
        /\ IF ok
           THEN /\ fetchLayers < MaxLayers
                /\ authStatus' = "authenticated"
                /\ authHeader' = (IF Truthy(bootToken) THEN setAuthToken(bootToken)
                                  ELSE authHeader)
                /\ fetchLayers' = fetchLayers + 1
                /\ UNCHANGED slot
           ELSE /\ SetStore(signOut(Store))
                /\ UNCHANGED fetchLayers
    /\ voided' = FALSE
    /\ ev' = Event("autoLogin")
    /\ UNCHANGED <<bootToken, reqs, calls, netCalls, nextTok, retired>>
    /\ UNCHANGED <<timerVars, retryVars>>

\* signIn succeeds: setAuthState(authenticated); setTokenStorageValue(token);
\* setAuthToken(token); the effect on isAuthenticated then runs interceptFetch().
signIn ==
    /\ authStatus = "unauthenticated"
    /\ nextTok <= MaxTokens
    /\ fetchLayers < MaxLayers
    /\ authStatus' = "authenticated"
    /\ slot' = Tok(nextTok)
    /\ authHeader' = setAuthToken(Tok(nextTok))
    /\ nextTok' = nextTok + 1
    /\ fetchLayers' = fetchLayers + 1
    /\ voided' = FALSE
    /\ ev' = Event("signIn")
    /\ UNCHANGED <<bootToken, reqs, calls, netCalls, retired>>
    /\ UNCHANGED <<timerVars, retryVars>>

\* The user signs out.
signOutAction ==
    /\ authStatus = "authenticated"
    /\ SetStore(signOut(Store))
    /\ ev' = Event("signOut")
    /\ UNCHANGED <<bootToken, fetchLayers, reqs, calls, netCalls, nextTok, voided, retired>>
    /\ UNCHANGED <<timerVars, retryVars>>

\* authFetch up to its await: the requireAuth check, the headers, the call of
\* window.fetch (through the wrappers installed at this moment).
authFetch ==
    /\ calls < MaxSends
    /\ calls' = calls + 1
    /\ \E requireAuth \in BOOLEAN, method \in Methods,
          skipGlobalHeaders \in BOOLEAN, own \in BOOLEAN :
        IF requireAuth /\ ~isAuthenticated(authHeader, slot)
        THEN /\ ev' = [Event("call") EXCEPT !.requireAuth = requireAuth,
                                            !.method = method,
                                            !.skip = skipGlobalHeaders,
                                            !.own = own,
                                            !.kind = "AuthFetchError",
                                            !.status = 401,
                                            !.data = "Authentication required"]
             /\ UNCHANGED <<reqs, netCalls>>
        ELSE LET r == [layers |-> fetchLayers, stage |-> "inflight", status |-> 0]
                 hd == RequestHeaders(method, skipGlobalHeaders, own, authHeader, slot)
             IN /\ reqs' = reqs (+) One(r)
                /\ ev' = [EventOf("call", r) EXCEPT
                             !.requireAuth = requireAuth,
                             !.method = method,
                             !.skip = skipGlobalHeaders,
                             !.own = own,
                             !.authorization = hd.authorization,
                             !.contentType = hd.contentType]
                /\ netCalls' = netCalls + 1
    /\ UNCHANGED <<authStatus, authHeader, slot, bootToken, fetchLayers, nextTok,
                   voided, retired>>
    /\ UNCHANGED <<timerVars, retryVars>>

\* A response arrives: the wrappers run, then authFetch resumes.  An ok
\* response is returned; otherwise authFetch awaits response.json().
Respond ==
    \E q \in BagToSet(reqs), status \in Statuses, rotated \in BOOLEAN :
        /\ q.stage = "inflight"
        /\ rotated => nextTok <= MaxTokens
        /\ LET rot == IF rotated THEN Tok(nextTok) ELSE Null
               S1 == interceptAll(q.layers, Store, status, rot)
               S2 == authFetchOn401(S1, status)
               old == getAuthToken(authHeader, slot)
               r == [q EXCEPT !.status = status, !.stage = "parsing"]
           IN /\ SetStore(S2)
              /\ reqs' = IF Ok(status) THEN reqs (-) One(q)
                         ELSE (reqs (-) One(q)) (+) One(r)
              /\ ev' = [EventOf("respond", r) EXCEPT
                           !.rot = rot,
                           !.kind = IF Ok(status) THEN "response" ELSE "none",
                           !.data = IF Ok(status) THEN "body" ELSE "none"]
              /\ nextTok' = IF rotated THEN nextTok + 1 ELSE nextTok
              /\ voided' = (voided \/ status = 401)
              /\ retired' = IF rotated /\ q.layers > 0 /\ Truthy(old)
                            THEN retired \cup {old} ELSE retired
        /\ UNCHANGED <<bootToken, fetchLayers, calls, netCalls>>
        /\ UNCHANGED <<timerVars, retryVars>>

\* response.json() of a non-ok response settles; authFetch throws
\* AuthFetchError(status, errorData), with a fixed body when parsing failed.
ParseDone ==
    \E q \in BagToSet(reqs), body \in Bodies \cup {"unparseable"} :
        /\ q.stage = "parsing"
        /\ reqs' = reqs (-) One(q)
        /\ ev' = [EventOf("parseDone", q) EXCEPT
                     !.kind = "AuthFetchError",
                     !.data = IF body \in Bodies THEN body ELSE "Network error occurred"]
        /\ UNCHANGED <<authStatus, authHeader, slot, bootToken, fetchLayers, calls,
                       netCalls, nextTok, voided, retired>>
        /\ UNCHANGED <<timerVars, retryVars>>

NetworkFail_retry ==
    \E q \in BagToSet(reqs) :
        /\ q.stage = "inflight"
        /\ netCalls <= calls
        /\ netCalls' = netCalls + 1
        /\ ev' = [EventOf("networkFail", q) EXCEPT !.kind = "none"]
        /\ UNCHANGED <<authStatus, authHeader, slot, bootToken, fetchLayers, reqs, calls,
                       nextTok, voided, retired>>
        /\ UNCHANGED <<timerVars, retryVars>>

\* fetch rejects: the wrappers rethrow, authFetch throws AuthFetchError(0, ..).
NetworkFail ==
    \E q \in BagToSet(reqs) :
        /\ q.stage = "inflight"
        /\ reqs' = reqs (-) One(q)
        /\ ev' = [EventOf("networkFail", q) EXCEPT
                     !.kind = "AuthFetchError", !.status = 0,
                     !.data = "Network error occurred"]
        /\ UNCHANGED <<authStatus, authHeader, slot, bootToken, fetchLayers, calls,
                       netCalls, nextTok, voided, retired>>
        /\ UNCHANGED <<timerVars, retryVars>>

PipeNext ==
    \/ AutoLoginResolve
    \/ signIn
    \/ signOutAction
    \/ authFetch
    \/ Respond
    \/ ParseDone
    \/ NetworkFail

\* =============================================== Part III: NewCaseDialog
Empty == 0                  \* the empty string of formData.caseId
Ids == 1..MaxIds            \* `${prefix}-${randomNum}`, by its random part
RetryLimit == 3             \* attempts < 3

\* error.data.error: a message as a sequence of chunks, or Null when absent.
Marker == "duplicate key error"
Messages == {<<"E11000 ", Marker, " collection">>, <<"Validation failed">>, Null}

\* String.prototype.includes(Marker)
Includes(str) == str # Null /\ \E i \in DOMAIN str : str[i] = Marker

\* What `await onboardingApi.create(payload); await fetchJson(response)` can
\* give: a JSON body with success true or false, or a thrown
\* AuthFetchError(status, data) (0: network, 200: invalid JSON, else the
\* status of the rejection).
ErrStatuses == {0, 200, 400, 401, 500}
NoResp == [kind |-> "none", status |-> 0, error |-> Null, attempts |-> 0]
Outcomes ==
    {[kind |-> k, status |-> 200, error |-> Null] : k \in {"created", "refused"}}
    \cup {[kind |-> "error", status |-> st, error |-> m] : st \in ErrStatuses, m \in Messages}

ShouldRetry_anyRejection(att, err) == att < RetryLimit

\* attempts < 3 && error.status === 400 && error.data?.error &&
\* error.data.error.includes('duplicate key error')
ShouldRetry(att, err) ==
    att < RetryLimit /\ err.status = 400 /\ err.error # Null /\ Includes(err.error)

\* The message the catch block hands to setError.
SurfacedError(err) ==
    IF err.status = 400 /\ err.error # Null THEN err.error
    ELSE <<"Network error. Please try again.">>

\* A handleSubmit call that has not returned: phase is where it is, attempts
\* the argument of its running attemptSubmission, closureCaseId the
\* formData.caseId of the render the handler belongs to, sentIds the
\* payload.caseId of each onboardingApi.create it made, generated its calls of
\* generateCaseId.
Started(id) ==
    [phase |-> "inflight", attempts |-> 0, closureCaseId |-> id, sentIds |-> <<id>>,
     generated |-> 0]

\* The settling o of the request of a call, with the attempt it answers.
Settled(run, o) ==
    [kind |-> o.kind, status |-> o.status, error |-> o.error, attempts |-> run.attempts]

RetryInit ==
    /\ dlgOpen = FALSE
    /\ caseId = Empty
    /\ formFilled = FALSE
    /\ loading = FALSE
    /\ error = <<>>
    /\ runs = EmptyBag
    /\ resp = NoResp

\* The dialog opens: the effect on open runs generateCaseId() and setError('').
OpenDialog ==
    /\ ~dlgOpen
    /\ dlgOpen' = TRUE
    /\ caseId' \in Ids
    /\ error' = <<>>
    /\ UNCHANGED <<formFilled, loading, runs, resp>>
    /\ UNCHANGED <<timerVars, pipeVars>>

\* handleChange: the user fills the remaining required fields.
FillForm ==
    /\ dlgOpen
    /\ ~formFilled
    /\ formFilled' = TRUE
    /\ UNCHANGED <<dlgOpen, caseId, loading, error, runs, resp>>
    /\ UNCHANGED <<timerVars, pipeVars>>

\* handleSubmit up to its first await: setError(''), setLoading(true),
\* attemptSubmission(0) with the formData of the render the handler belongs
\* to; a form that fails validation ends the call at once.  The submit button
\* is disabled while loading, and by nothing else.
handleSubmit ==
    /\ dlgOpen
    /\ ~loading
    /\ IF caseId = Empty \/ ~formFilled
       THEN /\ error' = <<"Please fill in all required fields">>
            /\ loading' = FALSE
            /\ UNCHANGED runs
       ELSE /\ BagCardinality(runs) < MaxRuns
            /\ error' = <<>>
            /\ loading' = TRUE
            /\ runs' = runs (+) One(Started(caseId))
    /\ UNCHANGED <<dlgOpen, caseId, formFilled, resp>>
    /\ UNCHANGED <<timerVars, pipeVars>>

\* The awaited create / fetchJson of a call settles.  Success: onSuccess(),
\* onClose(), the form is reset.  A rejection for which the retry condition
\* holds: generateCaseId() and the 100 ms wait.  Otherwise setError(..).  The
\* finally block runs setLoading(false) unless the wait was entered.
CreateSettles ==
    \E run \in BagToSet(runs), o \in Outcomes :
        /\ run.phase = "inflight"
        /\ resp' = Settled(run, o)
        /\ IF o.kind = "created"
           THEN /\ dlgOpen' = FALSE
                /\ caseId' = Empty
                /\ formFilled' = FALSE
                /\ loading' = FALSE
                /\ runs' = runs (-) One(run)
                /\ UNCHANGED error
           ELSE IF o.kind = "refused"
           THEN /\ error' = <<"Failed to create onboarding case">>
                /\ loading' = FALSE
                /\ runs' = runs (-) One(run)
                /\ UNCHANGED <<dlgOpen, caseId, formFilled>>
           ELSE IF ShouldRetry(run.attempts, o)
           THEN /\ caseId' \in Ids
                /\ runs' = (runs (-) One(run))
                             (+) One([run EXCEPT !.phase = "delay",
                                                 !.generated = @ + 1])
                /\ UNCHANGED <<dlgOpen, formFilled, loading, error>>
           ELSE /\ error' = SurfacedError(o)
                /\ loading' = FALSE
                /\ runs' = runs (-) One(run)
                /\ UNCHANGED <<dlgOpen, caseId, formFilled>>
        /\ UNCHANGED <<timerVars, pipeVars>>

\* The 100 ms wait of a call is over: return attemptSubmission(attempts + 1).
\* The nested call builds its payload from the formData the handler captured
\* and awaits the create; the finally block of the outer call then runs
\* setLoading(false).
DelayElapsed ==
    \E run \in BagToSet(runs) :
        /\ run.phase = "delay"
        /\ runs' = (runs (-) One(run))
                     (+) One([run EXCEPT !.phase = "inflight",
                                         !.attempts = @ + 1,
                                         !.sentIds = Append(@, run.closureCaseId)])
        /\ loading' = FALSE
        /\ UNCHANGED <<dlgOpen, caseId, formFilled, error, resp>>
        /\ UNCHANGED <<timerVars, pipeVars>>

RetryNext ==
    \/ OpenDialog
    \/ FillForm
    \/ handleSubmit
    \/ CreateSettles
    \/ DelayElapsed

vars == <<timerVars, pipeVars, retryVars>>

Init == TimerInit /\ PipeInit /\ RetryInit

RetrySpecInit == Init /\ enabled /\ events = DEFAULT_EVENTS /\ slot = Tok(1)

PipeSpecInit == Init /\ enabled /\ events = DEFAULT_EVENTS

Next == TimerNext

Spec == Init /\ [][Next]_vars

PipeSpec == PipeSpecInit /\ [][PipeNext]_vars

RetrySpec == RetrySpecInit /\ [][RetryNext]_vars

\* The timer with props that change during the life of the instance.
PropsSpecInit == Init /\ events = DEFAULT_EVENTS /\ slot = Null

PropsNext == TimerNext \/ PropsChange

PropsSpec == PropsSpecInit /\ [][PropsNext]_vars

\* ------------------------------------------------------------ properties
NoTimerPending == timeouts = {} /\ intervals = {}
RefsNull == inactivityTimerRef = None /\ countdownTimerRef = None
WarningEntered == showModal \/ qShowModal \/ intervals # {}

\* C1: while every gap (mount to the first activity notification, and between
\* consecutive notifications) has been shorter than IdleTimeout, the timer has
\* not entered Warning; and a notification handled in Active leaves exactly
\* one idle timer pending, armed with the full IdleTimeout.
C1_ShortGapsNeverWarn ==
    /\ [](gapsShort => ~WarningEntered)
    /\ [][(last' = "handleActivity" /\ ~showModal /\ enabled)
             => timeouts' = {[id |-> inactivityTimerRef', left |-> IdleTimeout]}]_vars

\* Active for longer than IdleTimeout in total, kept alive by notifications.
C1_Witness ==
    /\ gapsShort /\ enabled /\ mounted
    /\ clock > IdleTimeout
    /\ last = "handleActivity"
    /\ \E t \in timeouts : t.left = IdleTimeout

\* C2: the idle timer is due exactly when IdleTimeout seconds have passed with
\* no activity notification, confirm or forceLogout; when it fires it is
\* consumed, exactly one countdown timer is started, and the render that
\* follows shows the warning with countdownTime = InitialCountdownTime.
C2_IdleExpiryEntersWarning ==
    /\ [](\A t \in timeouts : t.left = IdleTimeout - idleFor)
    /\ [][last' = "idleFire"
             => /\ timeouts' = {}
                /\ Cardinality(intervals') = 1
                /\ \A t \in intervals' : t.id = countdownTimerRef'
                /\ qShowModal'
                /\ RunQueue(qCountdown', countdownTime').value = InitialCountdownTime]_vars
    /\ [][(last = "idleFire" /\ last' = "render")
             => (showModal' /\ isInactive' /\ countdownTime' = InitialCountdownTime)]_vars

\* Warning rendered for the second time, after a confirm at a lower count.
C2_Witness ==
    /\ last = "render" /\ showModal /\ countdownTime = InitialCountdownTime
    /\ Cardinality(intervals) = 1 /\ timeouts = {}
    /\ clock > IdleTimeout

\* C3: the step that brings countdownTime to 0 invokes onLogout exactly once,
\* leaves no timer pending and both refs null, hides the warning and sets
\* isInactive.
C3_ExpiryLogsOutOnce ==
    [][(countdownTime' = 0 /\ countdownTime # 0)
          => /\ logoutCalls' = logoutCalls + 1
             /\ NoTimerPending' /\ RefsNull'
             /\ ~showModal' /\ isInactive']_vars

C3_Witness ==
    /\ last = "render" /\ countdownTime = 0 /\ logoutCalls = 1
    /\ isInactive /\ ~showModal /\ NoTimerPending

\* C4: an activity notification delivered while the warning is shown changes
\* neither the state, the queued updates, the refs nor the pending timers.
C4_ActivityIgnoredInWarning ==
    [][(last' = "handleActivity" /\ showModal)
          => UNCHANGED <<isInactive, showModal, countdownTime, qIsInactive, qShowModal,
                         qCountdown, inactivityTimerRef, countdownTimerRef, timeouts,
                         intervals, logoutCalls>>]_vars

\* A notification ignored in Warning after the countdown has advanced.
C4_Witness ==
    /\ last = "handleActivity" /\ showModal /\ qShowModal
    /\ countdownTime < InitialCountdownTime /\ countdownTime >= 1
    /\ Cardinality(intervals) = 1

\* C5 (as claimed): after confirm() in Warning, at any countdownTime >= 1, the
\* sign-out callback cannot fire before a further idle period; in particular
\* the render that follows the confirm() does not invoke onLogout, ends in
\* Active and leaves the idle timer armed.
C5_ConfirmPreventsLogout ==
    [][(last = "confirm" /\ showModal /\ countdownTime >= 1 /\ last' = "render" /\ enabled)
          => (logoutCalls' = logoutCalls /\ ~isInactive' /\ timeouts' # {})]_vars

\* C6 (as claimed): once onLogout has been invoked no timer is pending again.
C6_LoggedOutTerminal ==
    logoutCalls > 0 => NoTimerPending

\* C7: after the unmount cleanup no timer is pending and both refs are null,
\* so no timer callback runs and onLogout is not invoked any more; a further
\* clearTimers() changes nothing.
C7_DisposeCancelsAll ==
    /\ [](~mounted => (NoTimerPending /\ RefsNull))
    /\ [][~mounted => (logoutCalls' = logoutCalls
                        /\ last' \notin {"idleFire", "tick", "render"}
                        /\ UNCHANGED <<inactivityTimerRef, countdownTimerRef,
                                       timeouts, intervals>>)]_vars
    /\ [](clearTimers(clearTimers(Timers)) = clearTimers(Timers))

\* Disposed in Warning with a countdown tick still awaiting its render.
C7_Witness ==
    /\ ~mounted /\ showModal /\ Len(qCountdown) > 0 /\ NoTimerPending

IsCall == ev'.op = "call" /\ calls' = calls + 1

\* C8: a call with requireAuth made while neither the in-memory header nor
\* the persisted slot holds a credential throws the 401 "Authentication
\* required" error at once, without a network call and without touching the
\* credential store.
C8_RequireAuthFailsFast ==
    [][(IsCall /\ ev'.requireAuth /\ authHeader = Null /\ slot = Null)
          => /\ ~ev'.sent
             /\ ev'.kind = "AuthFetchError" /\ ev'.status = 401
             /\ ev'.data = "Authentication required"
             /\ netCalls' = netCalls /\ reqs' = reqs
             /\ UNCHANGED <<authHeader, slot, authStatus>>]_vars

\* Short-circuited after an earlier request's 401 had cleared the store.
C8_Witness ==
    /\ ev.op = "call" /\ ev.requireAuth /\ ~ev.sent
    /\ ev.kind = "AuthFetchError" /\ ev.status = 401
    /\ voided /\ netCalls = 1 /\ calls = 2
    /\ authHeader = Null /\ slot = Null

\* C9 (as claimed): from the processing of a 401 response until the next
\* sign-in, neither the in-memory header nor the persisted slot holds a
\* credential, whatever the other responses carry.
C9_AbsentAfter401 ==
    voided => (authHeader = Null /\ slot = Null)

\* C10 (as claimed): whenever a response carries New-Access-Token, the
\* in-memory header and the persisted slot hold the new credential once the
\* response has been processed.  (A 401 response is left out: for it C9
\* requires the store to be cleared.)
C10_RotationAlwaysStored ==
    [][(ev'.op = "respond" /\ nextTok' = nextTok + 1 /\ ev'.status # 401)
          => (authHeader' = setAuthToken(ev'.rot) /\ slot' = ev'.rot)]_vars

C17_ConfiguredSignalsOnly ==
    [][/\ (last' = "handleActivity" => signal' \in events)
       /\ (last' = "unheard" => signal' \notin events)]_vars

\* C19 (as claimed): after forceLogout() in Warning the cancelled countdown
\* does not invoke the sign-out callback; in particular the render that
\* follows the forceLogout() leaves the number of invocations alone.
C19_ForceLogoutOnce ==
    [][(last = "forceLogout" /\ showModal /\ last' = "render")
          => logoutCalls' = logoutCalls]_vars

\* C20: countdownTime stays within 0..InitialCountdownTime; in Warning, with
\* no confirm or forceLogout, the render of each tick lowers it by exactly 1,
\* to InitialCountdownTime minus the number of ticks, and onLogout is invoked
\* by the tick numbered InitialCountdownTime and by no earlier one.
C20_CountdownByOne ==
    /\ [](countdownTime \in 0..InitialCountdownTime)
    /\ [][(last' = "render" /\ showModal /\ qShowModal /\ qCountdown = <<"tick">>)
             => /\ countdownTime' = countdownTime - 1
                /\ countdownTime' = InitialCountdownTime - ticks
                /\ logoutCalls' \in {logoutCalls, logoutCalls + 1}
                /\ (logoutCalls' = logoutCalls + 1) <=> (ticks = InitialCountdownTime)]_vars

\* The last tick of an undisturbed countdown has been rendered.
C20_Witness ==
    /\ last = "render" /\ ticks = InitialCountdownTime /\ countdownTime = 0
    /\ logoutCalls = 1 /\ signal = "none" /\ clock = MaxClock

\* C15 (as claimed): a 401 response received while authenticated clears the
\* credential store and makes the auth state unauthenticated.
C15_401TearsDownSession ==
    [][(ev'.op = "respond" /\ ev'.status = 401 /\ authStatus = "authenticated")
          => (authHeader' = Null /\ slot' = Null /\ authStatus' = "unauthenticated")]_vars

\* C16 (as claimed): a failure of a request the server answered, or that got
\* no response, never reads to the caller like the client-side
\* "Authentication required" failure of a request that was not sent.
C16_ErrorKindsDistinct ==
    (ev.kind = "AuthFetchError" /\ ev.sent)
        => AuthFetchError(ev.status, ev.data) # AuthFetchError(401, "Authentication required")

\* The Authorization header for the credential the store holds.
BearerOfStore == IF authHeader # Null THEN authHeader
                 ELSE IF slot # Null THEN <<BearerPrefix>> \o slot ELSE Null

\* C18 (as claimed): every request that is sent carries Authorization: Bearer
\* <c> for the credential c the store holds at that moment, when it holds
\* one, and the JSON content type exactly when the method is not GET.
C18_HeadersAttached ==
    [][(IsCall /\ ev'.sent)
          => /\ (BearerOfStore # Null => ev'.authorization = BearerOfStore)
             /\ ev'.contentType = (ev'.method # "GET")]_vars

\* C18 (amended): the same, for a call made without skipGlobalHeaders and
\* without headers of the caller's own.
C18_HeadersAttachedByDefault ==
    [][(IsCall /\ ev'.sent /\ ~ev'.skip /\ ~ev'.own)
          => /\ (BearerOfStore # Null => ev'.authorization = BearerOfStore)
             /\ (BearerOfStore = Null => ev'.authorization = Null)
             /\ ev'.contentType = (ev'.method # "GET")]_vars

\* A POST sent with the credential of the persisted slot only.
C18_Witness ==
    /\ ev.op = "call" /\ ev.sent /\ ~ev.skip /\ ~ev.own
    /\ ev.method = "POST" /\ ev.contentType
    /\ authHeader = Null /\ slot # Null
    /\ ev.authorization = <<BearerPrefix>> \o slot

\* The call run ends at this step.
Returns(run) == runs' = runs (-) One(run)

\* C11 (as claimed): a submit that succeeds at its third attempt has sent
\* three different identifiers.
C11_RetriedIdsDiffer ==
    [][\A run \in BagToSet(runs) :
         (run.phase = "inflight" /\ Returns(run) /\ resp'.kind = "created"
            /\ Len(run.sentIds) = 3)
          => (/\ run.sentIds[1] # run.sentIds[2]
              /\ run.sentIds[2] # run.sentIds[3]
              /\ run.sentIds[1] # run.sentIds[3])]_vars

\* C12 (as claimed): one submit makes at most three submissions.
C12_AtMostThreeSubmissions ==
    \A run \in BagToSet(runs) : Len(run.sentIds) <= 3

\* A uniqueness violation, as the retry condition recognises it.
IsCollision(o) ==
    o.kind = "error" /\ o.status = 400 /\ o.error # Null
        /\ \E i \in DOMAIN o.error : o.error[i] = "duplicate key error"

\* C13: when the first attempt is rejected with anything but a uniqueness
\* violation, the submit ends there: one submission, no generateCaseId call,
\* the identifier in the form unchanged, the error shown and loading off.
C13_NonCollisionNotRetried ==
    [][\A run \in BagToSet(runs) :
         (run.phase = "inflight" /\ run.attempts = 0
            /\ CopiesIn(run, runs') < CopiesIn(run, runs)
            /\ resp'.kind = "error" /\ ~IsCollision(resp'))
          => /\ Returns(run) /\ resp'.attempts = 0
             /\ Len(run.sentIds) = 1 /\ run.generated = 0
             /\ caseId' = caseId
             /\ error' # <<>> /\ ~loading']_vars

\* The first attempt was rejected with status 400 and another message.
C13_Witness ==
    /\ resp.kind = "error" /\ resp.attempts = 0
    /\ resp.status = 400 /\ resp.error = <<"Validation failed">>
    /\ error = <<"Validation failed">>
    /\ ~loading /\ dlgOpen
    /\ runs = EmptyBag

\* C27 (as claimed): while a submit is running, awaiting a response or the
\* delay before a retry, loading is true, and no second submit is running.
C27_LoadingWhileRunning ==
    /\ runs # EmptyBag => loading
    /\ BagCardinality(runs) <= 1

\* C21 (as claimed): an activity notification that is the very next event
\* after the idle timer's callback changes neither the timers, the refs nor
\* the queued state.
C21_GuardHoldsAtOnce ==
    [][(last = "idleFire" /\ last' = "handleActivity")
          => UNCHANGED <<qIsInactive, qShowModal, qCountdown, inactivityTimerRef,
                         countdownTimerRef, timeouts, intervals>>]_vars

\* C22: at most one timer is pending, whichever; a pending idle timer is the
\* one inactivityTimerRef holds and a pending countdown timer the one
\* countdownTimerRef holds; after an activity reset or a confirm the only
\* timer pending is the new idle timer, after forceLogout none is.
C22_OneTimerPending ==
    /\ [](Cardinality(timeouts) + Cardinality(intervals) <= 1)
    /\ [](/\ \A t \in timeouts : t.id = inactivityTimerRef
          /\ \A t \in intervals : t.id = countdownTimerRef)
    /\ [][((last' = "confirm" \/ (last' = "handleActivity" /\ ~showModal)) /\ enabled)
             => /\ intervals' = {}
                /\ timeouts' = {[id |-> inactivityTimerRef', left |-> IdleTimeout]}]_vars
    /\ [][last' = "forceLogout" => NoTimerPending']_vars

\* confirm() in Warning after the mount effect had run again: the countdown
\* is cancelled and one idle timer is pending.
C22_Witness ==
    /\ last = "confirm" /\ showModal /\ enabled /\ isInactive
    /\ intervals = {} /\ Cardinality(timeouts) = 1
    /\ countdownTimerRef = None /\ inactivityTimerRef # None

\* C26 (as claimed): once the queued updates are rendered, the warning of a
\* mounted instance is visible exactly when a countdown timer is pending.
C26_WarningIffCountdown ==
    (mounted /\ ~dirty) => (showModal <=> intervals # {})

\* C28: in an instance with enabled = false no timer is ever pending, the
\* warning is neither shown nor queued to be shown, and onLogout is invoked
\* by forceLogout only.
C28_DisabledNeverArms ==
    /\ [](~enabled => (NoTimerPending /\ ~showModal /\ ~qShowModal))
    /\ [][(~enabled /\ logoutCalls' # logoutCalls) => last' = "forceLogout"]_vars

\* Disabled, after more than the idle timeout, activity and a confirm().
C28_Witness ==
    /\ ~enabled /\ mounted /\ clock = MaxClock /\ last = "confirm"
    /\ signal = "mousemove" /\ logoutCalls = 0 /\ NoTimerPending /\ ~showModal

\* The header and the slot hold the same credential, or neither holds one.
StoreConsistent ==
    \/ authHeader = Null /\ slot = Null
    \/ slot # Null /\ authHeader = setAuthToken(slot)

\* C23 (as claimed): after a sign-in, the startup auto-login, a rotation a
\* wrapper carried out, a sign-out or a 401 clear, the in-memory header and
\* the persisted slot hold the same credential or are both absent.
C23_SingleCurrentCredential ==
    [][(\/ ev'.op \in {"autoLogin", "signIn", "signOut"}
        \/ ev'.op = "respond" /\ ev'.status = 401
        \/ ev'.op = "respond" /\ ev'.rot # Null /\ ev'.layers > 0)
          => StoreConsistent']_vars

\* C24 (as claimed): while the auth state is unauthenticated neither the
\* in-memory header nor the persisted slot holds a credential.
C24_UnauthenticatedHoldsNothing ==
    authStatus = "unauthenticated" => (authHeader = Null /\ slot = Null)

\* C25 (as claimed): window.fetch is wrapped by at most one interceptor.
C25_AtMostOneLayer ==
    fetchLayers <= 1

\* C29 (as claimed): a response with a status other than 401, the settling of
\* an error body, a transport failure and a short-circuited call all leave
\* the in-memory header and the persisted slot unchanged.
C29_OnlyA401Changes ==
    [][(\/ ev'.op = "respond" /\ ev'.status # 401
        \/ ev'.op \in {"parseDone", "networkFail"}
        \/ IsCall)
          => UNCHANGED <<authHeader, slot>>]_vars

\* C29 (amended): none of them clears a credential, and they leave the
\* header and the slot unchanged unless the response carries
\* New-Access-Token.
C29_OnlyA401Clears ==
    /\ [][(ev'.op = "respond" /\ ev'.status # 401)
             => /\ (ev'.rot = Null => UNCHANGED <<authHeader, slot>>)
                /\ (authHeader # Null => authHeader' # Null)
                /\ (slot # Null => slot' # Null)]_vars
    /\ [][(ev'.op \in {"parseDone", "networkFail"} \/ IsCall)
             => UNCHANGED <<authHeader, slot>>]_vars

\* A 403 response was processed and the credential is still in both places.
C29_Witness ==
    /\ ev.op = "respond" /\ ev.status = 403 /\ ev.rot = Null /\ ev.layers > 0
    /\ authStatus = "authenticated" /\ authHeader # Null /\ slot # Null

\* C30: the network fetch is invoked only by a call of authFetch that is not
\* short-circuited, once; no response, error body or transport failure makes
\* the pipeline invoke it again, so it never ran more often than authFetch
\* was called.
C30_OneRequestPerCall ==
    /\ [](netCalls <= calls)
    /\ [][netCalls' # netCalls
             => (IsCall /\ ev'.sent /\ netCalls' = netCalls + 1)]_vars
    /\ [][ev'.op \in {"respond", "parseDone", "networkFail"}
             => netCalls' = netCalls]_vars

\* One call, one request, which failed in transport and was not repeated.
C30_Witness ==
    /\ ev.op = "networkFail" /\ ev.kind = "AuthFetchError" /\ ev.status = 0
    /\ calls = 1 /\ netCalls = 1 /\ reqs = EmptyBag

====
